---- MODULE Spec2Model ----
(***************************************************************************)
(* A model of backend/upscale_manager.py (the three Gradio entry points    *)
(* upscale_image_gradio, upscale_with_custom_dimensions_gradio and         *)
(* batch_upscale_gradio) and of the two handlers of the dreambooth tab,    *)
(* frontend/components/dreambooth_fine_tuning.py (update_blocks_visibility *)
(* and on_start_training) of MFLUX-WEBUI.                                  *)
(*                                                                         *)
(* The external collaborators (PIL, the mflux Upscaler, the file system,   *)
(* force_mlx_cleanup, the wall clock) are the environment: each call draws *)
(* an Env record saying which of them fails, and the clock is a variable   *)
(* that the Tick action advances.                                          *)
(***************************************************************************)
EXTENDS Integers, Sequences, FiniteSets, TLC

VARIABLES
    pc,               \* "idle"; "batch" inside the loop of batch_upscale_gradio; "done"
                      \* when a request has returned and its result is on display
    clock,            \* int(time.time()): the wall clock in whole seconds
    nreq,             \* number of top-level requests started so far
    top,              \* the entry point of the current / last top-level request
    cleanups,         \* cleanup invocations made during the current / last top-level request
    call,             \* the last call of upscale_image_gradio / ..custom..: args, log, ret
    files,            \* the paths of the image files saved to OUTPUT_DIR so far
    overwritten,      \* the paths an image save wrote although an earlier save had
                      \* already written them
    batch,            \* the arguments of the batch request in progress
    idx,              \* batch loop: number of items already processed
    outcomes,         \* batch loop: for each processed item, its path and what the call
                      \* of upscale_image_gradio for it returned or raised
    upscaled_images,  \* batch loop: list of the images collected
    errors,           \* batch loop: list of the per-item error strings
    bret,             \* the value batch_upscale_gradio returned last
    transformer_blocks_enabled,  \* dreambooth tab: value of "Enable Transformer Blocks"
    single_blocks_enabled,       \* dreambooth tab: value of "Enable Single Transformer Blocks"
    change,           \* the checkbox whose change event waits for its handler, or "none"
    changed,          \* the change event handled last: its checkbox, the inputs and the
                      \* outputs of update_blocks_visibility
    tpc,              \* on_start_training: "idle", "relay" inside the for loop, "done"
    args,             \* the two flags on_start_training was started with
    generator,        \* what the backend generator will do, and the yield it is at
    relayed           \* the updates on_start_training has yielded so far

\* the state of backend/upscale_manager.py and the state of the dreambooth tab
upscale == <<pc, clock, nreq, top, cleanups, call, files, overwritten, batch, idx, outcomes,
             upscaled_images, errors, bret>>
dreambooth == <<transformer_blocks_enabled, single_blocks_enabled, change, changed, tpc,
                args, generator, relayed>>

vars == <<pc, clock, nreq, top, cleanups, call, files, overwritten, batch, idx, outcomes,
          upscaled_images, errors, bret, transformer_blocks_enabled,
          single_blocks_enabled, change, changed, tpc, args, generator, relayed>>

----------------------------------------------------------------------------
(* Bounds of the model *)

\* strings given as upscale_factor have at most MaxLen characters
MaxLen == 3
\* the backend generator of a training run yields at most MaxYields progress strings
MaxYields == 2
\* top-level requests per behaviour
MaxRequests == 1
\* the clock runs from 0 to MaxClock seconds
MaxClock == 1
\* a batch holds at most MaxBatch images
MaxBatch == 2

----------------------------------------------------------------------------
(* Python values *)

\* The characters the upscale_factor strings are built from.
Chars == {"0", "2", "3", "4", "5", ".", "x", "X", " ", "a"}
Digits == {"0", "2", "3", "4", "5"}
Whitespace == {" "}

DigitVal(c) ==
    CASE c = "0" -> 0 [] c = "2" -> 2 [] c = "3" -> 3 [] c = "4" -> 4 [] c = "5" -> 5

\* A Python value given as upscale_factor: a str, a number n/d, or None.
Str(s) == [t |-> "str", s |-> s, n |-> 0, d |-> 1]
Num(n, d) == [t |-> "num", s |-> <<>>, n |-> n, d |-> d]
None == [t |-> "none", s |-> <<>>, n |-> 0, d |-> 1]

\* bool(v): the empty string, zero and None are falsy.
Truthy(v) ==
    CASE v.t = "str" -> v.s # <<>>
      [] v.t = "num" -> v.n # 0
      [] OTHER -> FALSE

SetMin(S) == CHOOSE x \in S : \A y \in S : x <= y
SetMax(S) == CHOOSE x \in S : \A y \in S : x >= y

\* str.strip()
strip(s) ==
    LET keep == {i \in 1..Len(s) : s[i] \notin Whitespace}
    IN  IF keep = {} THEN <<>> ELSE SubSeq(s, SetMin(keep), SetMax(keep))

\* str.lower()
lower(s) == [i \in 1..Len(s) |-> IF s[i] = "X" THEN "x" ELSE s[i]]

\* str.endswith(c)
endswith(s, c) == Len(s) > 0 /\ s[Len(s)] = c

\* str.replace(c, ''): every occurrence of c is removed
replace(s, c) == SelectSeq(s, LAMBDA ch : ch # c)

RECURSIVE DecVal(_)
\* the value of a string of decimal digits
DecVal(ds) ==
    IF ds = <<>> THEN 0
    ELSE 10 * DecVal(SubSeq(ds, 1, Len(ds) - 1)) + DigitVal(ds[Len(ds)])

RECURSIVE Pow10(_)
Pow10(k) == IF k = 0 THEN 1 ELSE 10 * Pow10(k - 1)

\* float(s) of a str: surrounding whitespace is ignored; digits with at most one
\* decimal point and at least one digit; anything else raises ValueError.
\* The value is the fraction n/d.
float(s) ==
    LET t    == strip(s)
        dots == {i \in 1..Len(t) : t[i] = "."}
        ds   == SelectSeq(t, LAMBDA ch : ch # ".")
        ok   == /\ \A i \in 1..Len(t) : t[i] \in Digits \cup {"."}
                /\ Cardinality(dots) <= 1
                /\ ds # <<>>
    IN  IF ~ok THEN [err |-> TRUE, n |-> 0, d |-> 1]
        ELSE [err |-> FALSE, n |-> DecVal(ds),
              d |-> IF dots = {} THEN 1 ELSE Pow10(Len(t) - SetMax(dots))]

\* int(x) of a number n/d: truncation towards zero
int(x) == IF x.n >= 0 THEN x.n \div x.d ELSE -((-x.n) \div x.d)

\* int(s) of a str: surrounding whitespace is ignored; digits only; anything
\* else (in particular a blank string) raises ValueError.
int_str(s) ==
    LET t == strip(s)
    IN  IF t # <<>> /\ \A i \in 1..Len(t) : t[i] \in Digits
        THEN [err |-> FALSE, n |-> DecVal(t)]
        ELSE [err |-> TRUE, n |-> 0]

----------------------------------------------------------------------------
(* Images, files and the environment *)

\* The image files a request can name, with their pixel sizes <<width, height>>;
\* "" stands for a missing input (None or the empty path).
ImageFiles == {"a.png", "b.png"}
ImageInputs == ImageFiles \cup {""}
ImageSize(path) == IF path = "a.png" THEN <<100, 100>> ELSE <<40, 20>>

\* None as an image, and an image of the given size
NoImage == <<>>

Formats == {"PNG", "JPEG", "WebP"}

\* Where a call's environment fails.  Each call meets at most one failure
\* before its finally block: the first one ends the try body.
\*   open      Image.open(input_image) raises
\*   load      upscale_image fails before it reaches Upscaler.upscale
\*   upscaler  Upscaler.upscale is invoked and raises
\*   resize    Image.resize raises
\*   save      Image.save raises
\*   reopen    the second Image.open (for the sidecar) raises
\*   meta      writing the sidecar raises
FailPoints == {"none", "open", "load", "upscaler", "resize", "save", "reopen", "meta"}

\* What size the external upscaler hands back: the input scaled by the factor,
\* the input scaled and padded, or the input scaled by two whatever the factor.
OutSels == {"scaled", "padded", "double"}

Env == [fail : FailPoints, cleanup_raises : BOOLEAN, out : OutSels]

\* One entry of a call's log: an effect on the outside world.
\*   upscaler_call  Upscaler.upscale was invoked with scale_factor n, and returned
\*                  an image of the given size (<<>> when it raised)
\*   resize         the result was resized
\*   write_image    the image file path was written, with size
\*   write_meta     the sidecar file path was written
\*   cleanup        gc.collect(); force_mlx_cleanup() was invoked
Ev(ev, n, path, size) == [ev |-> ev, n |-> n, path |-> path, size |-> size]

OUTPUT_DIR == "output/"

\* the file extension and the save format of an output_format
Ext(output_format) ==
    IF output_format = "PNG" THEN "png"
    ELSE IF output_format = "JPEG" THEN "jpg"
    ELSE "webp"

\* os.path.join(OUTPUT_DIR, f"upscaled_{upscale_factor_int}x_{timestamp}.{ext}")
FactorPath(factor, timestamp, ext) ==
    <<OUTPUT_DIR, "upscaled_", ToString(factor), "x_", ToString(timestamp), ".", ext>>

\* os.path.join(OUTPUT_DIR, f"upscaled_custom_{final_width}x{final_height}_{timestamp}.{ext}")
CustomPath(final_width, final_height, timestamp, ext) ==
    <<OUTPUT_DIR, "upscaled_custom_", ToString(final_width), "x", ToString(final_height),
      "_", ToString(timestamp), ".", ext>>

\* return img, msg
Return(log, img, msg) ==
    [log |-> log, ret |-> [kind |-> "return", img |-> img, msg |-> msg]]

\* except Exception as e: ... return None, f"Error: {str(e)}"
Except(log, e) ==
    [log |-> log, ret |-> [kind |-> "return", img |-> NoImage, msg |-> "Error: " \o e]]

\* a cleanup at the end of the try body in the place of the finally block: it is
\* skipped by the early returns and by the except clause
FinallyOnSuccess(body, env) ==
    IF body.ret.img = NoImage THEN body
    ELSE [log |-> Append(body.log, Ev("cleanup", 0, <<>>, <<>>)),
          ret |-> IF env.cleanup_raises
                  THEN [kind |-> "raise", img |-> NoImage, msg |-> "cleanup failed"]
                  ELSE body.ret]

\* finally: gc.collect(); force_mlx_cleanup().  An exception raised in the
\* finally block replaces the return value of the try statement.
Finally(body, env) ==
    [log |-> Append(body.log, Ev("cleanup", 0, <<>>, <<>>)),
     ret |-> IF env.cleanup_raises
             THEN [kind |-> "raise", img |-> NoImage, msg |-> "cleanup failed"]
             ELSE body.ret]

\* The size Upscaler.upscale returns for an image of size `size`.
UpscalerOutput(size, scale_factor, out) ==
    CASE out = "scaled" -> <<size[1] * scale_factor, size[2] * scale_factor>>
      [] out = "padded" -> <<size[1] * scale_factor + 1, size[2] * scale_factor>>
      [] OTHER          -> <<size[1] * 2, size[2] * 2>>

\* upscale_image(image_path, upscale_factor): None on any exception
upscale_image(image_path, upscale_factor, env) ==
    IF env.fail = "load" THEN [log |-> <<>>, img |-> NoImage]
    ELSE IF env.fail = "upscaler"
    THEN [log |-> <<Ev("upscaler_call", upscale_factor, <<>>, <<>>)>>, img |-> NoImage]
    ELSE [log |-> <<Ev("upscaler_call", upscale_factor, <<>>,
                       UpscalerOutput(ImageSize(image_path), upscale_factor, env.out))>>,
          img |-> UpscalerOutput(ImageSize(image_path), upscale_factor, env.out)]

----------------------------------------------------------------------------
(* upscale_image_gradio *)

\* lines 60-70: the parse of a non-blank str, given the str and its stripped,
\* lower-cased form
parse_factor_str(s, stripped) ==
    IF endswith(stripped, "x")
    THEN float(replace(stripped, "x"))
    ELSE float(s)

\* int(scale), or the default 2 after a ValueError
int_or_default(scale) ==
    IF scale.err THEN [raised |-> FALSE, val |-> 2, msg |-> ""]
    ELSE [raised |-> FALSE, val |-> int(scale), msg |-> ""]

\* line 72: int(upscale_factor) if upscale_factor else 2
int_if_truthy(upscale_factor) ==
    IF ~Truthy(upscale_factor) THEN [raised |-> FALSE, val |-> 2, msg |-> ""]
    ELSE IF upscale_factor.t = "num"
    THEN [raised |-> FALSE, val |-> int(upscale_factor), msg |-> ""]
    ELSE IF int_str(upscale_factor.s).err
    THEN [raised |-> TRUE, val |-> 0, msg |-> "invalid literal for int() with base 10"]
    ELSE [raised |-> FALSE, val |-> int_str(upscale_factor.s).n, msg |-> ""]

\* The factor resolution of upscale_image_gradio: the value of
\* upscale_factor_int, or the ValueError that leaves the try body.
upscale_factor_int(upscale_factor) ==
    IF upscale_factor.t = "str" /\ strip(upscale_factor.s) # <<>>
    THEN int_or_default(parse_factor_str(upscale_factor.s, lower(strip(upscale_factor.s))))
    ELSE int_if_truthy(upscale_factor)

\* a validation that lets the factor 5 through
SupportedFactorsAndFive == {2, 3, 4, 5}

\* line 75: the factors the validation accepts
SupportedFactors == {2, 3, 4}

\* f"Successfully upscaled image {upscale_factor_int}x to {width}x{height}"
SuccessMessage(factor, img) ==
    "Successfully upscaled image " \o ToString(factor) \o "x to "
        \o ToString(img[1]) \o "x" \o ToString(img[2])

\* lines 103-127: the sidecar, then the return of the image and the message
upscale_image_gradio_metadata(factor, img, saved, metadata, env, now) ==
    IF ~metadata
    THEN Return(saved, img, SuccessMessage(factor, img))
    ELSE IF env.fail = "reopen"
    THEN Except(saved, "cannot identify image file")
    ELSE IF env.fail = "meta"
    THEN Except(saved, "cannot write metadata file")
    ELSE Return(Append(saved, Ev("write_meta", 0, FactorPath(factor, now, "json"), <<>>)),
                img, SuccessMessage(factor, img))

\* lines 82-101: the check of the upscaler's result, then the save of the image
upscale_image_gradio_save(factor, up, output_format, metadata, env, now) ==
    IF up.img = NoImage
    THEN Return(up.log, NoImage, "Error: Failed to upscale image")
    ELSE IF env.fail = "save"
    THEN Except(up.log, "cannot write image file")
    ELSE upscale_image_gradio_metadata(factor, up.img,
             Append(up.log, Ev("write_image", 0,
                               FactorPath(factor, now, Ext(output_format)), up.img)),
             metadata, env, now)

\* a try body that validates the factor only after the call of upscale_image
upscale_image_gradio_try_upscale_first(input_image, f, output_format, metadata, env, now) ==
    IF input_image = ""
    THEN Return(<<>>, NoImage, "Error: Input image is required")
    ELSE IF env.fail = "open"
    THEN Except(<<>>, "cannot identify image file")
    ELSE IF f.raised
    THEN Except(<<>>, f.msg)
    ELSE IF f.val \notin SupportedFactors
    THEN Return(upscale_image(input_image, f.val, env).log, NoImage,
                "Error: Upscale factor must be 2, 3, or 4")
    ELSE upscale_image_gradio_save(f.val, upscale_image(input_image, f.val, env),
                                   output_format, metadata, env, now)

\* lines 49-80: the try body up to the call of upscale_image; f is the resolved factor
upscale_image_gradio_try(input_image, f, output_format, metadata, env, now) ==
    IF input_image = ""
    THEN Return(<<>>, NoImage, "Error: Input image is required")
    ELSE IF env.fail = "open"
    THEN Except(<<>>, "cannot identify image file")
    ELSE IF f.raised
    THEN Except(<<>>, f.msg)
    ELSE IF f.val \notin SupportedFactors
    THEN Return(<<>>, NoImage, "Error: Upscale factor must be 2, 3, or 4")
    ELSE upscale_image_gradio_save(f.val, upscale_image(input_image, f.val, env),
                                   output_format, metadata, env, now)

\* the record of a call: its arguments, what it did and what it returned
CallRecord(fn, input_image, upscale_factor, target, final, output_format, metadata, done) ==
    [fn |-> fn, input_image |-> input_image, upscale_factor |-> upscale_factor,
     target |-> target, final |-> final, output_format |-> output_format,
     metadata |-> metadata, log |-> done.log, ret |-> done.ret]

upscale_image_gradio(input_image, upscale_factor, output_format, metadata, env, now) ==
    CallRecord("upscale_image_gradio", input_image, upscale_factor, <<>>, <<>>,
               output_format, metadata,
               Finally(upscale_image_gradio_try(input_image,
                           upscale_factor_int(upscale_factor),
                           output_format, metadata, env, now), env))

----------------------------------------------------------------------------
(* upscale_with_custom_dimensions_gradio *)

\* int(original_dim * scale), or the ValueError of float()
scaled_dim(scale, original_dim) ==
    IF scale.err THEN [raised |-> TRUE, val |-> 0]
    ELSE [raised |-> FALSE, val |-> int([n |-> original_dim * scale.n, d |-> scale.d])]

\* backend.flux_manager.parse_scale_factor(value, original_dim): a scale such as
\* "2x" or "2.5x" is applied to the original dimension, anything else is an
\* absolute pixel value; the result is an int, or the call raises.
parse_scale_factor(value, original_dim) ==
    IF value.t = "num" THEN [raised |-> FALSE, val |-> int(value)]
    ELSE IF value.t # "str" THEN [raised |-> TRUE, val |-> 0]
    ELSE IF endswith(lower(strip(value.s)), "x")
    THEN scaled_dim(float(replace(lower(strip(value.s)), "x")), original_dim)
    ELSE scaled_dim(float(value.s), 1)

\* a <= b for fractions with positive denominators
Leq(a, b) == a.n * b.d <= b.n * a.d

\* max(a, b)
max(a, b) == IF Leq(b, a) THEN a ELSE b

\* effective_scale = max(final_width / original_width, final_height / original_height)
\* (the quotients are kept as exact fractions: 2.5 and 3.5 are exact floats and
\* the float quotient of two pixel counts compares with them as the fraction does)
effective_scale(final_width, final_height, original_width, original_height) ==
    max([n |-> final_width, d |-> original_width],
        [n |-> final_height, d |-> original_height])

\* the buckets with < in the place of <=
supported_factor_strict(scale) ==
    IF ~Leq([n |-> 5, d |-> 2], scale) THEN 2
    ELSE IF ~Leq([n |-> 7, d |-> 2], scale) THEN 3
    ELSE 4

\* "Round to nearest supported scale factor": the buckets of effective_scale
supported_factor(scale) ==
    IF Leq(scale, [n |-> 5, d |-> 2]) THEN 2
    ELSE IF Leq(scale, [n |-> 7, d |-> 2]) THEN 3
    ELSE 4

\* a comparison of the widths alone
needs_resize_width_only(img, final_width, final_height) ==
    img[1] # final_width

\* whether the upscaler's output is resized to the target
needs_resize(img, final_width, final_height) ==
    img[1] # final_width \/ img[2] # final_height

\* f"Successfully upscaled image to {width}x{height}"
CustomSuccessMessage(img) ==
    "Successfully upscaled image to " \o ToString(img[1]) \o "x" \o ToString(img[2])

\* lines 206-230: the sidecar, then the return of the image and the message
custom_metadata(final_width, final_height, img, saved, metadata, env, now) ==
    IF ~metadata
    THEN Return(saved, img, CustomSuccessMessage(img))
    ELSE IF env.fail = "meta"
    THEN Except(saved, "cannot write metadata file")
    ELSE Return(Append(saved, Ev("write_meta", 0,
                                 CustomPath(final_width, final_height, now, "json"), <<>>)),
                img, CustomSuccessMessage(img))

\* lines 188-204: the save of the image
custom_save(final_width, final_height, img, log, output_format, metadata, env, now) ==
    IF env.fail = "save"
    THEN Except(log, "cannot write image file")
    ELSE custom_metadata(final_width, final_height, img,
             Append(log, Ev("write_image", 0,
                            CustomPath(final_width, final_height, now, Ext(output_format)),
                            img)),
             metadata, env, now)

\* lines 181-186: the check of the upscaler's result and the resize to the target
\* (Image.resize raises for a size that is not positive)
custom_resize(final_width, final_height, up, output_format, metadata, env, now) ==
    IF up.img = NoImage
    THEN Return(up.log, NoImage, "Error: Failed to upscale image")
    ELSE IF ~needs_resize(up.img, final_width, final_height)
    THEN custom_save(final_width, final_height, up.img, up.log,
                     output_format, metadata, env, now)
    ELSE IF env.fail = "resize" \/ final_width <= 0 \/ final_height <= 0
    THEN Except(up.log, "height and width must be > 0")
    ELSE custom_save(final_width, final_height, <<final_width, final_height>>,
                     Append(up.log, Ev("resize", 0, <<>>, <<final_width, final_height>>)),
                     output_format, metadata, env, now)

\* lines 151-179: the try body up to the call of upscale_image; fw and fh are the
\* results of parse_scale_factor
custom_try(input_image, original, fw, fh, output_format, metadata, env, now) ==
    IF input_image = ""
    THEN Return(<<>>, NoImage, "Error: Input image is required")
    ELSE IF env.fail = "open"
    THEN Except(<<>>, "cannot identify image file")
    ELSE IF fw.raised \/ fh.raised
    THEN Except(<<>>, "could not convert string to float")
    ELSE custom_resize(fw.val, fh.val,
             upscale_image(input_image,
                 supported_factor(effective_scale(fw.val, fh.val, original[1], original[2])),
                 env),
             output_format, metadata, env, now)

\* the call, given the results of parse_scale_factor
custom_call(input_image, target_width, target_height, fw, fh, output_format, metadata, env, now) ==
    CallRecord("upscale_with_custom_dimensions_gradio", input_image, None,
               <<target_width, target_height>>,
               IF input_image = "" \/ fw.raised \/ fh.raised THEN <<>> ELSE <<fw.val, fh.val>>,
               output_format, metadata,
               Finally(custom_try(input_image, ImageSize(input_image), fw, fh,
                                  output_format, metadata, env, now), env))

upscale_with_custom_dimensions_gradio(input_image, target_width, target_height, output_format, metadata, env, now) ==
    custom_call(input_image, target_width, target_height,
                parse_scale_factor(target_width, ImageSize(input_image)[1]),
                parse_scale_factor(target_height, ImageSize(input_image)[2]),
                output_format, metadata, env, now)

----------------------------------------------------------------------------
(* batch_upscale_gradio *)

\* the error line numbered from 0
ErrorLineZeroBased(i, message) == <<"Image ", ToString(i), ": ", message>>

\* f"Image {idx+1}: {message}"
ErrorLine(i, message) == <<"Image ", ToString(i + 1), ": ", message>>

\* The body of the loop for item number i (counted from 0), given what the call
\* of upscale_image_gradio for that item did.
batch_step(images, errs, i, ret) ==
    IF ret.kind = "raise"
    THEN [upscaled_images |-> images, errors |-> Append(errs, ErrorLine(i, ret.msg))]
    ELSE IF ret.img # NoImage
    THEN [upscaled_images |-> Append(images, ret.img), errors |-> errs]
    ELSE [upscaled_images |-> images, errors |-> Append(errs, ErrorLine(i, ret.msg))]

\* What batch_upscale_gradio returns after the loop: the images and the message
\* (its first line, then the error lines).
batch_return(images, errs) ==
    IF images # <<>>
    THEN [imgs |-> images,
          msg |-> [head |-> "Successfully upscaled " \o ToString(Len(images)) \o " image(s)",
                   errors |-> errs]]
    ELSE [imgs |-> <<>>,
          msg |-> [head |-> "Failed to upscale any images", errors |-> errs]]

----------------------------------------------------------------------------
(* The inputs of the requests *)

S1(c1) == Str(<<c1>>)
S2(c1, c2) == Str(<<c1, c2>>)
S4(c1, c2, c3, c4) == Str(<<c1, c2, c3, c4>>)

\* SpecResolve: every str of at most MaxLen characters, some numbers, and None
Strings == UNION {[1..n -> Chars] : n \in 0..MaxLen}
Numbers == {Num(k, 10) : k \in {-5, 0, 5, 19, 20, 29, 30, 45, 50}}
FactorInputs == {Str(s) : s \in Strings} \cup Numbers \cup {None}

\* SpecCustom: the target_width / target_height values
TargetInputs ==
    {S2("2", "x"), S4("2", ".", "5", "x"), S4("3", ".", "5", "x"), S2("4", "x"), S2("a", "x")}
    \cup {Num(k, 1) : k \in {0, 50, 51, 70, 71, 100, 101, 140, 141, 250, 251, 300, 350, 351}}

\* SpecResolve: the environments of the requests
CalmEnv == {e \in Env : e.fail \in {"none", "upscaler"} /\ ~e.cleanup_raises /\ e.out = "scaled"}

\* Spec: the arguments and the environments of the requests.  A supported, an
\* unsupported and a blank factor; a present and a missing image; the upscaler
\* returns the input scaled by the factor.
FactorSamples == {S2("2", "x"), S2("5", "x"), S1(" "), S1("a"), Num(0, 10), None}
TargetSamples == {<<S2("2", "x"), S2("2", "x")>>, <<Num(250, 1), Num(300, 1)>>,
                  <<Num(351, 1), Num(300, 1)>>, <<S2("a", "x"), Num(300, 1)>>}
ImageSamples == {"a.png", ""}
FormatSamples == {"PNG", "JPEG"}
EnvSamples == {e \in Env : e.out = "scaled"}
\* Spec, batch requests: the factors, the images and the environments of the items
BatchFactors == {S2("2", "x"), S2("5", "x"), S1(" ")}
BatchEnv == {e \in EnvSamples : e.fail \in {"none", "upscaler"}}
BatchInputs == UNION {[1..n -> ImageInputs] : n \in 0..MaxBatch}

NoRet == [kind |-> "none", img |-> NoImage, msg |-> ""]
NoCall ==
    [fn |-> "none", input_image |-> "", upscale_factor |-> None, target |-> <<>>,
     final |-> <<>>, output_format |-> "PNG", metadata |-> FALSE, log |-> <<>>, ret |-> NoRet]
NoBatch == [input_images |-> <<>>, upscale_factor |-> None, output_format |-> "PNG",
            metadata |-> FALSE]
NoBatchRet == [imgs |-> <<>>, msg |-> [head |-> "", errors |-> <<>>]]

\* a request that is about to be served
Pending(input_image, upscale_factor, target, output_format, metadata) ==
    [NoCall EXCEPT !.fn = "pending", !.input_image = input_image,
                   !.upscale_factor = upscale_factor, !.target = target,
                   !.output_format = output_format, !.metadata = metadata]

\* the events `ev` of a log, and the paths its image save wrote
Events(log, ev) == SelectSeq(log, LAMBDA e : e.ev = ev)
Count(log, ev) == Len(Events(log, ev))
ImagePaths(log) == {log[i].path : i \in {j \in 1..Len(log) : log[j].ev = "write_image"}}

----------------------------------------------------------------------------
(* The state machine *)

----------------------------------------------------------------------------
(* frontend/components/dreambooth_fine_tuning.py *)

\* the change handler of both checkboxes: the values it returns for them
update_blocks_visibility(transformer_enabled, single_enabled) ==
    IF transformer_enabled /\ single_enabled
    THEN [transformer_blocks_enabled |-> TRUE, single_blocks_enabled |-> FALSE]
    ELSE [transformer_blocks_enabled |-> transformer_enabled,
          single_blocks_enabled |-> single_enabled]

\* debug_dir.value: the value the debug_dir textbox was built with
DebugDirValue == "configs/dreambooth_debug_config.json"

\* an update that shows the exception text in the place of the progress string
progress_update_as_error(progress) ==
    [training_progress |-> "Error: " \o progress, debug_dir |-> DebugDirValue]

\* on_start_training, the yield inside the for loop
progress_update(progress) ==
    [training_progress |-> progress, debug_dir |-> DebugDirValue]

\* on_start_training, the yield of the except clause
error_update(e) ==
    [training_progress |-> "Error: " \o e, debug_dir |-> "Failed to save debug config"]

\* What run_dreambooth_from_ui_no_explicit_quantize(*args) can do: yield some
\* progress strings, then return or raise.
ProgressStrings == {"Epoch 1/2", "Error: no images", ""}
ExceptionTexts == {"out of memory", ""}
Generators ==
    {[yields |-> y, raises |-> r, e |-> IF r THEN e ELSE "", next |-> 1] :
        y \in UNION {[1..n -> ProgressStrings] : n \in 0..MaxYields},
        r \in BOOLEAN, e \in ExceptionTexts}

NoChange == [src |-> "none", inputs |-> <<>>, outputs |-> <<>>]
NoGenerator == [yields |-> <<>>, raises |-> FALSE, e |-> "", next |-> 1]

\* The tab as create_dreambooth_fine_tuning_tab builds it: both checkboxes are
\* created with value=True, no event has been dispatched, no training started.
create_dreambooth_fine_tuning_tab ==
    /\ transformer_blocks_enabled = TRUE
    /\ single_blocks_enabled = TRUE
    /\ change = "none"
    /\ changed = NoChange
    /\ tpc = "idle"
    /\ args = <<>>
    /\ generator = NoGenerator
    /\ relayed = <<>>

Init ==
    /\ pc = "idle"
    /\ clock = 0
    /\ nreq = 0
    /\ top = "none"
    /\ cleanups = 0
    /\ call = NoCall
    /\ files = {}
    /\ overwritten = {}
    /\ batch = NoBatch
    /\ idx = 0
    /\ outcomes = <<>>
    /\ upscaled_images = <<>>
    /\ errors = <<>>
    /\ bret = NoBatchRet
    /\ create_dreambooth_fine_tuning_tab

\* What one call of upscale_image_gradio or upscale_with_custom_dimensions_gradio
\* leaves behind: its record, the files it wrote, its cleanup invocations.
Served(c) ==
    /\ call' = c
    /\ files' = files \cup ImagePaths(c.log)
    /\ overwritten' = overwritten \cup (ImagePaths(c.log) \cap files)

\* a request to upscale_image_gradio
UpscaleImageGradio ==
    /\ pc = "idle"
    /\ nreq < MaxRequests
    /\ \E input_image \in ImageSamples, upscale_factor \in FactorSamples,
          output_format \in FormatSamples, metadata \in BOOLEAN, env \in EnvSamples :
          LET c == upscale_image_gradio(input_image, upscale_factor, output_format,
                                        metadata, env, clock)
          IN  Served(c) /\ cleanups' = Count(c.log, "cleanup")
    /\ pc' = "done"
    /\ top' = "upscale_image_gradio"
    /\ nreq' = nreq + 1
    /\ UNCHANGED <<clock, batch, idx, outcomes, upscaled_images, errors, bret>>
    /\ UNCHANGED dreambooth

\* a request to upscale_with_custom_dimensions_gradio
UpscaleWithCustomDimensionsGradio ==
    /\ pc = "idle"
    /\ nreq < MaxRequests
    /\ \E input_image \in ImageSamples, target \in TargetSamples,
          output_format \in FormatSamples, metadata \in BOOLEAN, env \in EnvSamples :
          LET c == upscale_with_custom_dimensions_gradio(input_image, target[1],
                       target[2], output_format, metadata, env, clock)
          IN  Served(c) /\ cleanups' = Count(c.log, "cleanup")
    /\ pc' = "done"
    /\ top' = "upscale_with_custom_dimensions_gradio"
    /\ nreq' = nreq + 1
    /\ UNCHANGED <<clock, batch, idx, outcomes, upscaled_images, errors, bret>>
    /\ UNCHANGED dreambooth

\* a request to batch_upscale_gradio: up to the loop, or the early return
BatchUpscaleGradio ==
    /\ pc = "idle"
    /\ nreq < MaxRequests
    /\ \E input_images \in BatchInputs, upscale_factor \in BatchFactors,
          output_format \in FormatSamples, metadata \in BOOLEAN :
          /\ batch' = [input_images |-> input_images, upscale_factor |-> upscale_factor,
                       output_format |-> output_format, metadata |-> metadata]
          /\ IF input_images = <<>>
             THEN /\ pc' = "done"
                  /\ bret' = [imgs |-> <<>>,
                              msg |-> [head |-> "Error: No images provided", errors |-> <<>>]]
             ELSE /\ pc' = "batch"
                  /\ bret' = NoBatchRet
    /\ top' = "batch_upscale_gradio"
    /\ nreq' = nreq + 1
    /\ cleanups' = 0
    /\ idx' = 0
    /\ outcomes' = <<>>
    /\ upscaled_images' = <<>>
    /\ errors' = <<>>
    /\ UNCHANGED <<clock, call, files, overwritten>>
    /\ UNCHANGED dreambooth

\* one turn of the loop of batch_upscale_gradio: the call of upscale_image_gradio
\* for the next item, and the bookkeeping of its result
BatchItem ==
    /\ pc = "batch"
    /\ idx < Len(batch.input_images)
    /\ \E env \in BatchEnv :
          LET c == upscale_image_gradio(batch.input_images[idx + 1], batch.upscale_factor,
                                        batch.output_format, batch.metadata, env, clock)
              r == batch_step(upscaled_images, errors, idx, c.ret)
          IN  /\ Served(c)
              /\ cleanups' = cleanups + Count(c.log, "cleanup")
              /\ outcomes' = Append(outcomes, [item |-> c.input_image, ret |-> c.ret])
              /\ upscaled_images' = r.upscaled_images
              /\ errors' = r.errors
    /\ idx' = idx + 1
    /\ UNCHANGED <<pc, clock, nreq, top, batch, bret>>
    /\ UNCHANGED dreambooth

\* the end of batch_upscale_gradio: the loop is over and the result is returned
BatchReturn ==
    /\ pc = "batch"
    /\ idx = Len(batch.input_images)
    /\ bret' = batch_return(upscaled_images, errors)
    /\ pc' = "done"
    /\ UNCHANGED <<clock, nreq, top, cleanups, call, files, overwritten, batch, idx,
                   outcomes, upscaled_images, errors>>
    /\ UNCHANGED dreambooth

\* The result of the request is shown and its frame is gone: what stays is the
\* output directory and the clock.
Respond ==
    /\ pc = "done"
    /\ pc' = "idle"
    /\ top' = "none"
    /\ cleanups' = 0
    /\ call' = NoCall
    /\ batch' = NoBatch
    /\ idx' = 0
    /\ outcomes' = <<>>
    /\ upscaled_images' = <<>>
    /\ errors' = <<>>
    /\ bret' = NoBatchRet
    /\ UNCHANGED <<clock, nreq, files, overwritten>>
    /\ UNCHANGED dreambooth

\* a second passes
Tick ==
    /\ clock < MaxClock
    /\ clock' = clock + 1
    /\ UNCHANGED <<pc, nreq, top, cleanups, call, files, overwritten, batch, idx,
                   outcomes, upscaled_images, errors, bret>>
    /\ UNCHANGED dreambooth

Next ==
    \/ UpscaleImageGradio
    \/ UpscaleWithCustomDimensionsGradio
    \/ BatchUpscaleGradio
    \/ BatchItem
    \/ BatchReturn
    \/ Respond
    \/ Tick

Spec == Init /\ [][Next]_vars

----------------------------------------------------------------------------
(* The factor resolution of upscale_image_gradio on its own: Init draws the  *)
(* request, the one action serves it.                                        *)

InitResolve ==
    /\ pc = "idle"
    /\ clock = 0
    /\ nreq = 0
    /\ top = "none"
    /\ cleanups = 0
    /\ call \in {Pending(i, f, <<>>, o, m) :
                    i \in {"a.png", ""}, f \in FactorInputs, o \in Formats, m \in BOOLEAN}
    /\ files = {}
    /\ overwritten = {}
    /\ batch = NoBatch
    /\ idx = 0
    /\ outcomes = <<>>
    /\ upscaled_images = <<>>
    /\ errors = <<>>
    /\ bret = NoBatchRet
    /\ create_dreambooth_fine_tuning_tab

ServeUpscaleImageGradio ==
    /\ pc = "idle"
    /\ call.fn = "pending"
    /\ \E env \in CalmEnv :
          LET c == upscale_image_gradio(call.input_image, call.upscale_factor,
                                        call.output_format, call.metadata, env, clock)
          IN  Served(c) /\ cleanups' = Count(c.log, "cleanup")
    /\ pc' = "done"
    /\ top' = "upscale_image_gradio"
    /\ nreq' = nreq + 1
    /\ UNCHANGED <<clock, batch, idx, outcomes, upscaled_images, errors, bret>>
    /\ UNCHANGED dreambooth

SpecResolve == InitResolve /\ [][ServeUpscaleImageGradio]_vars

----------------------------------------------------------------------------
(* upscale_with_custom_dimensions_gradio on its own: Init draws the request, *)
(* the one action serves it in any environment.                              *)

InitCustom ==
    /\ pc = "idle"
    /\ clock = 0
    /\ nreq = 0
    /\ top = "none"
    /\ cleanups = 0
    /\ call \in {Pending(i, None, <<w, h>>, o, m) :
                    i \in ImageInputs, w \in TargetInputs, h \in TargetInputs,
                    o \in Formats, m \in BOOLEAN}
    /\ files = {}
    /\ overwritten = {}
    /\ batch = NoBatch
    /\ idx = 0
    /\ outcomes = <<>>
    /\ upscaled_images = <<>>
    /\ errors = <<>>
    /\ bret = NoBatchRet
    /\ create_dreambooth_fine_tuning_tab

ServeUpscaleWithCustomDimensionsGradio ==
    /\ pc = "idle"
    /\ call.fn = "pending"
    /\ \E env \in Env :
          LET c == upscale_with_custom_dimensions_gradio(call.input_image, call.target[1],
                       call.target[2], call.output_format, call.metadata, env, clock)
          IN  Served(c) /\ cleanups' = Count(c.log, "cleanup")
    /\ pc' = "done"
    /\ top' = "upscale_with_custom_dimensions_gradio"
    /\ nreq' = nreq + 1
    /\ UNCHANGED <<clock, batch, idx, outcomes, upscaled_images, errors, bret>>
    /\ UNCHANGED dreambooth

SpecCustom == InitCustom /\ [][ServeUpscaleWithCustomDimensionsGradio]_vars

----------------------------------------------------------------------------
(* The dreambooth tab: the user switches the two checkboxes and clicks       *)
(* "Start Training"; the event loop runs one handler at a time.              *)

\* the user switches "Enable Transformer Blocks": its change event is raised
ToggleTransformerBlocks ==
    /\ change = "none"
    /\ transformer_blocks_enabled' = ~transformer_blocks_enabled
    /\ change' = "transformer_blocks_enabled"
    /\ UNCHANGED <<single_blocks_enabled, changed, tpc, args, generator, relayed>>
    /\ UNCHANGED upscale

\* the user switches "Enable Single Transformer Blocks": its change event is raised
ToggleSingleBlocks ==
    /\ change = "none"
    /\ single_blocks_enabled' = ~single_blocks_enabled
    /\ change' = "single_blocks_enabled"
    /\ UNCHANGED <<transformer_blocks_enabled, changed, tpc, args, generator, relayed>>
    /\ UNCHANGED upscale

\* the change event is handled: update_blocks_visibility is called with the values
\* of the two checkboxes and its result is written to them
UpdateBlocksVisibility ==
    /\ change # "none"
    /\ tpc # "relay"
    /\ LET out == update_blocks_visibility(transformer_blocks_enabled, single_blocks_enabled)
       IN  /\ transformer_blocks_enabled' = out.transformer_blocks_enabled
           /\ single_blocks_enabled' = out.single_blocks_enabled
           /\ changed' = [src |-> change,
                          inputs |-> <<transformer_blocks_enabled, single_blocks_enabled>>,
                          outputs |-> <<out.transformer_blocks_enabled,
                                        out.single_blocks_enabled>>]
    /\ change' = "none"
    /\ UNCHANGED <<tpc, args, generator, relayed>>
    /\ UNCHANGED upscale

\* start_train_btn_v2.click: on_start_training is called with the values of the
\* form, the two flags among them, and obtains the backend generator
OnStartTraining ==
    /\ change = "none"
    /\ tpc # "relay"
    /\ generator' \in Generators
    /\ args' = <<transformer_blocks_enabled, single_blocks_enabled>>
    /\ relayed' = <<>>
    /\ tpc' = "relay"
    /\ UNCHANGED <<transformer_blocks_enabled, single_blocks_enabled, change, changed>>
    /\ UNCHANGED upscale

\* on_start_training, one turn of the for loop: the generator yields a progress
\* string and the handler yields the update that shows it
RelayProgress ==
    /\ tpc = "relay"
    /\ generator.next <= Len(generator.yields)
    /\ relayed' = Append(relayed, progress_update(generator.yields[generator.next]))
    /\ generator' = [generator EXCEPT !.next = @ + 1]
    /\ UNCHANGED <<transformer_blocks_enabled, single_blocks_enabled, change, changed,
                   tpc, args>>
    /\ UNCHANGED upscale

\* on_start_training, the except clause: the generator (or the call that makes it)
\* raised, and the handler yields the error update and ends
RelayException ==
    /\ tpc = "relay"
    /\ generator.next > Len(generator.yields)
    /\ generator.raises
    /\ relayed' = Append(relayed, error_update(generator.e))
    /\ tpc' = "done"
    /\ UNCHANGED <<transformer_blocks_enabled, single_blocks_enabled, change, changed,
                   args, generator>>
    /\ UNCHANGED upscale

\* on_start_training, the end of the for loop: the generator is exhausted
RelayEnd ==
    /\ tpc = "relay"
    /\ generator.next > Len(generator.yields)
    /\ ~generator.raises
    /\ tpc' = "done"
    /\ UNCHANGED <<transformer_blocks_enabled, single_blocks_enabled, change, changed,
                   args, generator, relayed>>
    /\ UNCHANGED upscale

NextDreambooth ==
    \/ ToggleTransformerBlocks
    \/ ToggleSingleBlocks
    \/ UpdateBlocksVisibility
    \/ OnStartTraining
    \/ RelayProgress
    \/ RelayException
    \/ RelayEnd

SpecDreambooth == Init /\ [][NextDreambooth]_vars

----------------------------------------------------------------------------
(* Properties *)

\* the call on display is one of upscale_image_gradio / upscale_with_custom_dimensions_gradio
Called == call.fn \in {"upscale_image_gradio", "upscale_with_custom_dimensions_gradio"}

\* the factors the upscaler was invoked with by the call on display
CalledFactors == {call.log[i].n : i \in {j \in 1..Len(call.log) : call.log[j].ev = "upscaler_call"}}

\* C1: whatever the entry point (upscale_image_gradio, upscale_with_custom_dimensions_gradio,
\* or batch_upscale_gradio through upscale_image_gradio) and whatever its inputs, every
\* invocation of the external upscaler is made with a scale factor of 2, 3 or 4.
C1_UpscalerFactorSupported == CalledFactors \subseteq {2, 3, 4}

\* C1, witness: an item of a batch reached the upscaler.
C1_Witness == top = "batch_upscale_gradio" /\ pc = "batch" /\ CalledFactors # {}

\* The number a value denotes as a factor: a number itself; a str for what float()
\* makes of it once the surrounding blanks and one trailing 'x' are taken off.
Numeral(v) ==
    IF v.t = "num" THEN [err |-> FALSE, n |-> v.n, d |-> v.d]
    ELSE IF v.t # "str" THEN [err |-> TRUE, n |-> 0, d |-> 1]
    ELSE IF endswith(lower(strip(v.s)), "x")
    THEN float(SubSeq(strip(v.s), 1, Len(strip(v.s)) - 1))
    ELSE float(v.s)

RejectedFactor == [kind |-> "return", img |-> NoImage,
                   msg |-> "Error: Upscale factor must be 2, 3, or 4"]

\* C2 (as claimed): upscale_image_gradio resolves "2x", "3" and "4.0" to 2, 3 and 4, and
\* returns (None, "Error: Upscale factor must be 2, 3, or 4") for every numeric input,
\* with or without a trailing 'x', whose integer part is not 2, 3 or 4.
C2_Original ==
    (pc = "done" /\ call.fn = "upscale_image_gradio" /\ call.input_image # "") =>
        /\ call.upscale_factor = S2("2", "x") => CalledFactors = {2}
        /\ call.upscale_factor = S1("3") => CalledFactors = {3}
        /\ call.upscale_factor = Str(<<"4", ".", "0">>) => CalledFactors = {4}
        /\ (~Numeral(call.upscale_factor).err /\ int(Numeral(call.upscale_factor)) \notin {2, 3, 4})
               => call.ret = RejectedFactor

\* C3 (as claimed): in upscale_image_gradio every upscale_factor that is not a number
\* (non-numeric text, an 'x' with no number, the empty string, a blank string, None)
\* resolves to 2, and the call goes on to upscale with factor 2.
C3_Original ==
    (/\ pc = "done" /\ call.fn = "upscale_image_gradio" /\ call.input_image # ""
     /\ call.upscale_factor.t \in {"str", "none"}
     /\ Numeral(call.upscale_factor).err)
        => CalledFactors = {2}

\* C4: in upscale_with_custom_dimensions_gradio the factor passed to the upscaler is 2
\* when both target/original ratios are at most 2.5, 3 when the larger one is above 2.5
\* and at most 3.5, and 4 when it is above 3.5.
C4_FactorBuckets ==
    (call.fn = "upscale_with_custom_dimensions_gradio" /\ CalledFactors # {}) =>
        LET original == ImageSize(call.input_image)
            atMost25 == 2 * call.final[1] <= 5 * original[1] /\ 2 * call.final[2] <= 5 * original[2]
            atMost35 == 2 * call.final[1] <= 7 * original[1] /\ 2 * call.final[2] <= 7 * original[2]
        IN  CalledFactors = {IF atMost25 THEN 2 ELSE IF atMost35 THEN 3 ELSE 4}

\* C4, witness: the original is 100x100 and the target 250x300: the factor is 3.
C4_Witness ==
    /\ call.fn = "upscale_with_custom_dimensions_gradio"
    /\ call.input_image = "a.png"
    /\ call.final = <<250, 300>>
    /\ CalledFactors = {3}

\* C5: when upscale_with_custom_dimensions_gradio returns an image, the image returned
\* and the image saved have exactly the target size, whatever size the upscaler
\* produced, and the resize was done if and only if the upscaler's output differed
\* from the target in width or height.
C5_ExactTargetSize ==
    (/\ pc = "done" /\ call.fn = "upscale_with_custom_dimensions_gradio"
     /\ call.ret.kind = "return" /\ call.ret.img # NoImage)
        => /\ call.ret.img = call.final
           /\ Count(call.log, "write_image") = 1
           /\ Events(call.log, "write_image")[1].size = call.final
           /\ Count(call.log, "resize") =
                  IF Events(call.log, "upscaler_call")[1].size # call.final THEN 1 ELSE 0

\* C5, witness: the upscaler's output matched the target in width but not in height,
\* and the call returned the image resized.
C5_Witness ==
    /\ pc = "done" /\ call.fn = "upscale_with_custom_dimensions_gradio"
    /\ call.ret.kind = "return" /\ call.ret.img # NoImage
    /\ Count(call.log, "resize") = 1
    /\ Events(call.log, "upscaler_call")[1].size[1] = call.final[1]

\* an item of the batch failed: its call raised or returned no image
Failed(k) == outcomes[k].ret.kind = "raise" \/ outcomes[k].ret.img = NoImage
FailedItems == {k \in 1..Len(outcomes) : Failed(k)}

RECURSIVE ImagesOf(_)
\* the images of the first k items that did not fail, in order
ImagesOf(k) ==
    IF k = 0 THEN <<>>
    ELSE IF Failed(k) THEN ImagesOf(k - 1)
    ELSE Append(ImagesOf(k - 1), outcomes[k].ret.img)

\* C6: batch_upscale_gradio processes every item of a non-empty list in input order
\* whatever failed before: the list returned holds exactly the images of the items that
\* did not fail, in input order; the message has one line "Image k" for each failed item,
\* k its position counted from 1, in order, and none for the others; images plus error
\* lines are as many as the items.
C6_BatchIsolatesFailures ==
    (pc = "done" /\ top = "batch_upscale_gradio" /\ batch.input_images # <<>>) =>
        /\ Len(outcomes) = Len(batch.input_images)
        /\ \A k \in 1..Len(outcomes) : outcomes[k].item = batch.input_images[k]
        /\ bret.imgs = ImagesOf(Len(outcomes))
        /\ {bret.msg.errors[j][2] : j \in 1..Len(bret.msg.errors)} = {ToString(k) : k \in FailedItems}
        /\ \A j \in 1..Len(bret.msg.errors) : bret.msg.errors[j][1] = "Image "
        /\ Len(bret.msg.errors) = Cardinality(FailedItems)
        /\ Len(bret.imgs) + Len(bret.msg.errors) = Len(batch.input_images)

\* C6, witness: of two items the first failed and the second did not; the result holds
\* the second item's image and names "Image 1".
C6_Witness ==
    /\ pc = "done" /\ top = "batch_upscale_gradio"
    /\ Len(batch.input_images) = 2
    /\ FailedItems = {1}
    /\ Len(bret.imgs) = 1
    /\ bret.msg.errors[1][2] = "1"

\* C7: every call of upscale_image_gradio or upscale_with_custom_dimensions_gradio makes
\* exactly one cleanup invocation, on every path, and makes it after the upscaler call
\* and the file writes of that call: the cleanup is the last entry of the call's log.
C7_OneCleanupPerCall ==
    Called => /\ Count(call.log, "cleanup") = 1
              /\ call.log[Len(call.log)].ev = "cleanup"

\* C7, witness: a call that was refused for its factor made its one cleanup.
C7_Witness ==
    /\ Called
    /\ call.ret = RejectedFactor
    /\ Count(call.log, "cleanup") = 1

\* C8 (as claimed): a request to batch_upscale_gradio makes exactly one cleanup
\* invocation, whatever the number of items, the empty list included.
C8_Original ==
    (pc = "done" /\ top = "batch_upscale_gradio") => cleanups = 1

\* C9 (as claimed): no exception escapes upscale_image_gradio or
\* upscale_with_custom_dimensions_gradio, whatever step fails, the cleanup included:
\* the call returns, and what it returns after a failure is (None, an error string).
C9_Original ==
    Called => call.ret.kind = "return"

\* C10 (as claimed): two successful saves never write the same path, even within one
\* second: no image save writes a path that an earlier save wrote.
C10_Original == overwritten = {}

\* C11 (as claimed): when the change event of one of the two checkboxes finds both
\* enabled, update_blocks_visibility keeps the checkbox that was just switched enabled
\* and disables the other one, whichever of the two was switched.
C11_Original ==
    (changed.src # "none" /\ changed.inputs = <<TRUE, TRUE>>) =>
        changed.outputs = IF changed.src = "transformer_blocks_enabled"
                          THEN <<TRUE, FALSE>>
                          ELSE <<FALSE, TRUE>>

\* the texts the training_progress panel was given, in order
Shown == [i \in 1..Len(relayed) |-> relayed[i].training_progress]

\* C12: on_start_training relays the backend generator in order and one to one: while
\* it runs, the texts it has yielded are exactly the strings the backend has yielded so
\* far, unchanged; when the backend returns, they are all its strings and nothing else;
\* when the backend raises after k yields, they are those k strings followed by exactly
\* one "Error: " plus the exception text, and nothing after it.
C12_RelayVerbatim ==
    (tpc \in {"relay", "done"}) =>
        /\ tpc = "relay" => Shown = SubSeq(generator.yields, 1, generator.next - 1)
        /\ (tpc = "done" /\ ~generator.raises) => Shown = generator.yields
        /\ (tpc = "done" /\ generator.raises)
               => Shown = Append(generator.yields, "Error: " \o generator.e)

\* C12, witness: the backend raised after two yields; three updates were relayed.
C12_Witness ==
    /\ tpc = "done"
    /\ generator.raises
    /\ Len(generator.yields) = 2
    /\ Len(relayed) = 3

\* the error results of a missing input image, an unsupported factor, and an
\* upscaler that returned None
EarlyErrors ==
    {"Error: Input image is required", "Error: Upscale factor must be 2, 3, or 4",
     "Error: Failed to upscale image"}

\* C13: when upscale_image_gradio or upscale_with_custom_dimensions_gradio returns the
\* error of a missing input image, of an unsupported factor or of an upscaler that
\* returned None, that call has written no image file and no metadata sidecar; and for
\* the first two errors it has not invoked the upscaler.
C13_EarlyErrorWritesNothing ==
    (Called /\ call.ret.kind = "return" /\ call.ret.msg \in EarlyErrors) =>
        /\ call.ret.img = NoImage
        /\ Count(call.log, "write_image") = 0
        /\ Count(call.log, "write_meta") = 0
        /\ call.ret.msg # "Error: Failed to upscale image"
               => Count(call.log, "upscaler_call") = 0

\* C13, witness: the custom-dimensions call returned the error of an upscaler that
\* returned None, after one invocation of the upscaler.
C13_Witness ==
    /\ call.fn = "upscale_with_custom_dimensions_gradio"
    /\ call.ret.kind = "return"
    /\ call.ret.msg = "Error: Failed to upscale image"
    /\ Count(call.log, "upscaler_call") = 1
    /\ Count(call.log, "write_image") = 0

\* C14 (as claimed): in every state of the dreambooth tab, from the values the widgets
\* are built with and after any sequence of change events, at most one of the two
\* checkboxes is enabled once the pending change event has been handled, and
\* on_start_training is never started with both flags true.
C14_Original ==
    /\ change = "none" => ~(transformer_blocks_enabled /\ single_blocks_enabled)
    /\ args # <<TRUE, TRUE>>

====
